---- MODULE Spec2Model ----
(***************************************************************************)
(* Model of the YouTube upload agent: the browser form (UploadForm.tsx)    *)
(* and the upload endpoint (app/api/upload/route.ts), with the library     *)
(* modules the route imports (lib/seo, lib/youtube, lib/categories)        *)
(* modelled from the specification, since their code is not in src/.       *)
(***************************************************************************)
EXTENDS Integers, Sequences, FiniteSets, TLC

\* ------------------------------------------------------------------ bounds
\* Number of bounded-size chunks a resolved video payload is transferred in.
NumChunks == 2
\* Requests that may be waiting for the endpoint at once.
MaxPending == 2

\* ------------------------------------------------------- JavaScript values
NULL == "<null>"
UNDEFINED == "<undefined>"
BYTES == "<bytes>"
\* Number.NaN, the result of Date.parse on an unparseable string.
NaN == -1

\* A multipart form entry as FormData.get returns it: null, a string or a File.
Absent == [kind |-> "null", value |-> NULL]
Undef == [kind |-> "undefined", value |-> UNDEFINED]
Str(s) == [kind |-> "string", value |-> s]
FileEntry(name) == [kind |-> "file", value |-> name]

\* x || undefined : null and the empty string are falsy, a File is truthy.
OrUndefined(e) ==
  IF e.kind = "null" \/ (e.kind = "string" /\ e.value = "") THEN Undef ELSE e

\* ------------------------------------------------------------ input universe
VideoCategory == {"tech", "vlog", "shorts", "gaming", "tutorial"}
MonetizationSetting == {"enabled", "disabled"}

FileName == "My Trip.mov"
GoodUrl == "https://cdn.example.com/clips/demo-run.mp4"
BadUrl == "not a url"

SchedGarbage == "next tuesday"
SchedPast == "2020-01-01T00:00:00Z"
SchedFuture == "2099-01-01T00:00:00Z"
SchedLocal == "2099-01-01T00:00"

\* String.length on the strings of the universe.
StrLen(s) ==
  CASE s = "" -> 0
    [] s = "e" -> 1
    [] s = "English" -> 7
    [] OTHER -> 12

\* Date.parse: milliseconds since the epoch, abstracted to a small scale
\* (1 = 2020-01-01T00:00Z, 3 = 2099-01-01T00:00Z), or NaN. A date-time
\* without offset is read in the server's zone, taken to be UTC.
DateParse(s) ==
  CASE s = SchedPast -> 1
    [] s = SchedFuture -> 3
    [] s = SchedLocal -> 3
    [] s = "2020-01-01T00:00:00.000Z" -> 1
    [] s = "2099-01-01T00:00:00.000Z" -> 3
    [] OTHER -> NaN

\* Date.prototype.toISOString: the canonical UTC rendering; a RangeError for
\* an invalid date.
ToISOString(t) ==
  CASE t = 1 -> "2020-01-01T00:00:00.000Z"
    [] t = 3 -> "2099-01-01T00:00:00.000Z"
    [] OTHER -> "RangeError"

\* new URL(s) succeeds.
IsUrl(s) == s = GoodUrl

\* The last non-empty path segment of a URL.
LastPathSegment(s) == IF s = GoodUrl THEN "demo-run.mp4" ELSE UNDEFINED


\* --------------------------------------------------- lib/categories (registry)
\* Category registry: the platform category id of each member of the closed set.
CATEGORY_META ==
  [c \in VideoCategory |->
     [youtubeCategoryId |->
        CASE c = "tech" -> "28"
          [] c = "vlog" -> "22"
          [] c = "shorts" -> "24"
          [] c = "gaming" -> "20"
          [] OTHER -> "27"]]

\* ------------------------------------------------------ lib/seo (generator)
\* Step 1 of the generator: the human-readable base label of a name or URL.
BaseLabel(s) ==
  CASE s = FileName -> "My Trip"
    [] s = GoodUrl -> "demo run"
    [] OTHER -> "Untitled video"

LowerCase(s) == IF s = "English" THEN "english" ELSE s

\* generate(sourceNameOrUrl, category, language, monetization): a pure
\* function of its four inputs.
generateSeoBundle(a) ==
  [title |-> <<BaseLabel(a.fileNameOrUrl), a.category, a.language>>,
   description |->
     <<BaseLabel(a.fileNameOrUrl), a.category,
       IF a.monetization = "enabled" THEN "monetization disclosure" ELSE "no disclosure">>,
   tags |-> <<a.category, LowerCase(BaseLabel(a.fileNameOrUrl)), LowerCase(a.language)>>,
   hashtags |-> <<a.category>>,
   thumbnailPrompt |-> <<BaseLabel(a.fileNameOrUrl), a.category>>]

NoSeoArgs ==
  [fileNameOrUrl |-> UNDEFINED, category |-> UNDEFINED, language |-> UNDEFINED,
   monetization |-> UNDEFINED]

\* ----------------------------------------------------- route.ts: payloadSchema
SchemaSourceTypeOk(e) == e.kind = "string" /\ e.value \in {"file", "link"}

SchemaCategoryAny(e) == e.kind = "string"
SchemaCategoryOk(e) == e.kind = "string" /\ e.value \in VideoCategory

SchemaLanguageOk(e) == e.kind = "string" /\ StrLen(e.value) >= 2

SchemaMonetizationOk(e) == e.kind = "string" /\ e.value \in MonetizationSetting

\* z.string().refine(v => v === undefined || v === "" || !isNaN(Date.parse(v))).optional()
SchemaScheduleUnrefined(e) == e.kind = "undefined" \/ e.kind = "string"
SchemaScheduleOk(e) ==
  \/ e.kind = "undefined"
  \/ e.kind = "string" /\ (e.value = "" \/ DateParse(e.value) # NaN)

\* z.string().url().optional()
SchemaVideoUrlOk(e) == e.kind = "undefined" \/ (e.kind = "string" /\ IsUrl(e.value))

\* The object handed to safeParse (route.ts 51-58).
ParseInput(fd) ==
  [sourceType |-> fd.sourceType, category |-> fd.category, language |-> fd.language,
   monetization |-> fd.monetization, scheduleTime |-> OrUndefined(fd.scheduleTime),
   videoUrl |-> OrUndefined(fd.videoUrl)]

SafeParseSuccess(in) ==
  /\ SchemaSourceTypeOk(in.sourceType)
  /\ SchemaCategoryOk(in.category)
  /\ SchemaLanguageOk(in.language)
  /\ SchemaMonetizationOk(in.monetization)
  /\ SchemaScheduleOk(in.scheduleTime)
  /\ SchemaVideoUrlOk(in.videoUrl)

\* parsed.data: the validated values (an absent optional is undefined).
ParsedData(in) ==
  [sourceType |-> in.sourceType.value, category |-> in.category.value,
   language |-> in.language.value, monetization |-> in.monetization.value,
   scheduleTime |-> in.scheduleTime.value, videoUrl |-> in.videoUrl.value]

NoParsed ==
  [sourceType |-> UNDEFINED, category |-> UNDEFINED, language |-> UNDEFINED,
   monetization |-> UNDEFINED, scheduleTime |-> UNDEFINED, videoUrl |-> UNDEFINED]

\* --------------------------------------------------------- route.ts: responses
NoBody ==
  [videoId |-> UNDEFINED, title |-> <<>>, description |-> <<>>, tags |-> <<>>,
   hashtags |-> <<>>, thumbnailPrompt |-> <<>>, publishAt |-> UNDEFINED,
   categoryId |-> UNDEFINED]

NoResponse == [status |-> 0, ok |-> FALSE, error |-> UNDEFINED, hasData |-> FALSE, data |-> NoBody]

Failure(status, message) ==
  [status |-> status, ok |-> FALSE, error |-> message, hasData |-> FALSE, data |-> NoBody]

InvalidPayloadResponse == Failure(400, "Invalid payload")
FileRequiredResponse == Failure(400, "Video file is required for uploads.")
UrlRequiredResponse == Failure(400, "Video URL is required.")
UnresolvedResponse == Failure(500, "Failed to resolve video content.")

\* The catch block (route.ts 134-143).
ErrorResponseAsSuccess(message) ==
  [status |-> 200, ok |-> TRUE, error |-> message, hasData |-> TRUE,
   data |-> [NoBody EXCEPT !.videoId = "partial"]]
ErrorResponse(message) == Failure(500, message)

\* publishAt ?? null
OrNull(v) == IF v = UNDEFINED THEN NULL ELSE v

\* The success body (route.ts 121-133).
SuccessResponse(result, bundle, categoryId) ==
  [status |-> 200, ok |-> TRUE, error |-> UNDEFINED, hasData |-> TRUE,
   data |-> [videoId |-> result.videoId, title |-> bundle.title,
             description |-> bundle.description, tags |-> bundle.tags,
             hashtags |-> bundle.hashtags, thumbnailPrompt |-> bundle.thumbnailPrompt,
             publishAt |-> OrNull(result.publishAt), categoryId |-> categoryId]]

\* --------------------------------------------------------- route.ts: helpers
\* deriveFileName (route.ts 30-39).
deriveFileName(fileNameOrUrl, fallback) ==
  IF fileNameOrUrl = "" THEN fallback
  ELSE IF IsUrl(fileNameOrUrl)
       THEN (IF LastPathSegment(fileNameOrUrl) = UNDEFINED THEN fallback
             ELSE LastPathSegment(fileNameOrUrl))
       ELSE fileNameOrUrl

\* Which branch of the source resolution a validated request takes (route.ts 71-90).
SourceStepUnchecked(d, fd) ==
  IF d.sourceType = "file" THEN "bufferFromFile" ELSE "downloadRemoteVideo"
SourceStep(d, fd) ==
  IF d.sourceType = "file"
  THEN (IF fd.videoFile.kind # "file" THEN "fileRequired" ELSE "bufferFromFile")
  ELSE (IF d.videoUrl = UNDEFINED \/ d.videoUrl = "" THEN "urlRequired"
        ELSE "downloadRemoteVideo")

\* if (!videoBuffer) (route.ts 92).
BufferAlwaysResolved(buf) == TRUE
BufferResolved(buf) == buf # NULL

\* scheduleUtc (route.ts 99): undefined, an ISO string, or a thrown RangeError.
ScheduleDropped(d) == UNDEFINED
ScheduleUtc(d) ==
  IF d.scheduleTime = UNDEFINED \/ d.scheduleTime = "" THEN UNDEFINED
  ELSE ToISOString(DateParse(d.scheduleTime))

\* The argument of generateSeoBundle (route.ts 100-105).
SeoArgsDerivedName(name, d) ==
  [fileNameOrUrl |-> deriveFileName(name, "upload.mp4"), category |-> d.category,
   language |-> d.language, monetization |-> d.monetization]
SeoArgs(name, d) ==
  [fileNameOrUrl |-> name, category |-> d.category, language |-> d.language,
   monetization |-> d.monetization]

\* The argument of uploadVideo (route.ts 110-119).
UploadArgs(buf, name, d, bundle) ==
  [videoBuffer |-> buf, fileName |-> deriveFileName(name, "upload.mp4"),
   title |-> bundle.title, description |-> bundle.description, tags |-> bundle.tags,
   category |-> d.category, language |-> d.language, publishAt |-> ScheduleUtc(d)]

NoUploadArgs ==
  [videoBuffer |-> NULL, fileName |-> UNDEFINED, title |-> <<>>, description |-> <<>>,
   tags |-> <<>>, category |-> UNDEFINED, language |-> UNDEFINED, publishAt |-> UNDEFINED]


\* What route.ts 92-119 does once the source resolution has returned buf for
\* name: the response it ends with, or the call of uploadVideo.
Continue(buf, name, d) ==
  IF ~BufferResolved(buf)
  THEN [pc |-> "responded", resp |-> UnresolvedResponse, seoArgs |-> NoSeoArgs,
        uploadArgs |-> NoUploadArgs, lookup |-> UNDEFINED, calls |-> <<>>]
  ELSE IF ScheduleUtc(d) = "RangeError"
  THEN [pc |-> "responded", resp |-> ErrorResponse("Invalid time value"),
        seoArgs |-> NoSeoArgs, uploadArgs |-> NoUploadArgs, lookup |-> UNDEFINED,
        calls |-> <<>>]
  ELSE IF d.category \notin DOMAIN CATEGORY_META
  THEN [pc |-> "responded",
        resp |-> ErrorResponse("Cannot destructure property 'youtubeCategoryId'"),
        seoArgs |-> SeoArgs(name, d), uploadArgs |-> NoUploadArgs,
        lookup |-> d.category, calls |-> <<"generateSeoBundle">>]
  ELSE [pc |-> "uploadVideo", resp |-> NoResponse, seoArgs |-> SeoArgs(name, d),
        uploadArgs |-> UploadArgs(buf, name, d, generateSeoBundle(SeoArgs(name, d))),
        lookup |-> d.category, calls |-> <<"generateSeoBundle", "uploadVideo">>]

\* ------------------------------------------------ lib/youtube (orchestrator)
\* The fixed attempt ceiling of one chunk transfer.
MaxAttempts == 3
\* Readings of the wall clock on the scale of DateParse.
Clock == 2 .. 3

\* The clock is read only to compare a schedule with it.
ClockReadings(args) == IF args.publishAt = UNDEFINED THEN {0} ELSE Clock

NoUpload ==
  [state |-> "NONE", offset |-> 0, failures |-> 0, now |-> 0, privacy |-> UNDEFINED,
   error |-> UNDEFINED, videoId |-> UNDEFINED, publishAt |-> UNDEFINED,
   patched |-> FALSE, retried |-> FALSE]

\* A schedule is honoured when it lies strictly after the clock reading.
Scheduled(args, now) == args.publishAt # UNDEFINED /\ DateParse(args.publishAt) > now

\* The follow-up metadata update is made when the directive the orchestrator
\* received asks for monetization.
MonetizationRequested(args) ==
  "monetization" \in DOMAIN args /\ args.monetization = "enabled"

\* ------------------------------------------------ UploadForm.tsx: pure parts
NoSummary == [set |-> FALSE, data |-> NoBody]

\* The argument of the preview's generateSeoBundle (UploadForm.tsx 39-50);
\* NoSeoArgs stands for the null preview.
PreviewArgs(st, file, url, cat, lang, mon) ==
  LET fileNameOrUrl == IF st = "file" THEN (IF file = NULL THEN "" ELSE file) ELSE url
  IN IF fileNameOrUrl = "" THEN NoSeoArgs
     ELSE [fileNameOrUrl |-> fileNameOrUrl, category |-> cat, language |-> lang,
           monetization |-> mon]

\* The two early returns of handleSubmit (UploadForm.tsx 57-65).
ClientCheck(st, file, url) ==
  IF st = "file" /\ file = NULL THEN "noFile"
  ELSE IF st = "link" /\ url = "" THEN "noUrl"
  ELSE "send"

\* The FormData handleSubmit builds (UploadForm.tsx 69-82).
BuildFormData(st, file, url, cat, lang, mon, sched) ==
  [sourceType |-> Str(st), category |-> Str(cat), language |-> Str(lang),
   monetization |-> Str(mon),
   scheduleTime |-> IF sched # "" THEN Str(sched) ELSE Absent,
   videoFile |-> IF st = "file" /\ file # NULL THEN FileEntry(file) ELSE Absent,
   videoUrl |-> IF st = "link" THEN Str(url) ELSE Absent]

\* disabled={isSubmitting} on the submit button (UploadForm.tsx 196).
SubmitNeverDisabled(submitting) == FALSE
SubmitDisabled(submitting) == submitting

NoFormData ==
  [sourceType |-> Absent, category |-> Absent, language |-> Absent, monetization |-> Absent,
   scheduleTime |-> Absent, videoFile |-> Absent, videoUrl |-> Absent]
NoRequest == [origin |-> "none", bodyOk |-> FALSE, fd |-> NoFormData]

\* ---------------------------------------------------------------------- state
VARIABLES
  client,          \* which client drives the endpoint in this run: "browser" or "api"
  sourceType, videoFile, videoUrl, category, language, monetization, scheduleTime,
  isSubmitting, error, summary,      \* the form's React state
  inflight,        \* fetches issued by handleSubmit and not yet settled
  previewAtSubmit, \* the preview's generator argument when the form was submitted
  pending,         \* requests sent and not yet picked up by the endpoint
  pc,              \* position of POST: idle, bufferFromFile, downloadRemoteVideo,
                   \* uploadVideo, responded
  req,             \* the request POST is handling
  data,            \* parsed.data
  videoBuffer, fileNameOrUrl,
  seoArgs,         \* the argument generateSeoBundle was called with
  uploadArgs,      \* the argument uploadVideo was called with
  lookup,          \* the key CATEGORY_META was indexed with
  upload,          \* the orchestrator's state for this call
  resp,            \* the response POST returned
  calls            \* the steps POST has taken, in order

fieldVars == <<sourceType, videoFile, videoUrl, category, language, monetization, scheduleTime>>
formVars == <<fieldVars, isSubmitting, error, summary, inflight, previewAtSubmit>>
srvVars == <<pc, req, data, videoBuffer, fileNameOrUrl, seoArgs, uploadArgs, lookup, upload,
             resp, calls>>
vars == <<client, formVars, pending, srvVars>>

Init ==
  /\ client \in {"browser", "api"}
  /\ sourceType = "file" /\ videoFile = NULL /\ videoUrl = ""
  /\ category = "tech" /\ language = "English" /\ monetization = "enabled"
  /\ scheduleTime = ""
  /\ isSubmitting = FALSE /\ error = NULL /\ summary = NoSummary
  /\ inflight = 0 /\ previewAtSubmit = NoSeoArgs
  /\ pending = <<>>
  /\ pc = "idle" /\ req = NoRequest /\ data = NoParsed
  /\ videoBuffer = NULL /\ fileNameOrUrl = ""
  /\ seoArgs = NoSeoArgs /\ uploadArgs = NoUploadArgs /\ lookup = UNDEFINED
  /\ upload = NoUpload /\ resp = NoResponse /\ calls = <<>>


\* --------------------------------------------------- UploadForm.tsx: actions
\* Values the user can give the form's inputs.
FormFiles == {NULL, FileName}
\* The options of the category select: the keys of CATEGORY_LABELS.
FormCategories == VideoCategory
FormUrls == {"", GoodUrl}
FormLanguages == {"English", "e"}
FormSchedules == {"", SchedLocal}

SetSourceType ==
  /\ client = "browser"
  /\ \E v \in {"file", "link"} : sourceType' = v
  /\ UNCHANGED <<client, videoFile, videoUrl, category, language, monetization, scheduleTime,
                 isSubmitting, error, summary, inflight, previewAtSubmit, pending, srvVars>>

SetVideoFile ==
  /\ client = "browser" /\ sourceType = "file"
  /\ \E v \in FormFiles : videoFile' = v
  /\ UNCHANGED <<client, sourceType, videoUrl, category, language, monetization, scheduleTime,
                 isSubmitting, error, summary, inflight, previewAtSubmit, pending, srvVars>>

SetVideoUrl ==
  /\ client = "browser" /\ sourceType = "link"
  /\ \E v \in FormUrls : videoUrl' = v
  /\ UNCHANGED <<client, sourceType, videoFile, category, language, monetization, scheduleTime,
                 isSubmitting, error, summary, inflight, previewAtSubmit, pending, srvVars>>

SetCategory ==
  /\ client = "browser"
  /\ \E v \in FormCategories : category' = v
  /\ UNCHANGED <<client, sourceType, videoFile, videoUrl, language, monetization, scheduleTime,
                 isSubmitting, error, summary, inflight, previewAtSubmit, pending, srvVars>>

SetLanguage ==
  /\ client = "browser"
  /\ \E v \in FormLanguages : language' = v
  /\ UNCHANGED <<client, sourceType, videoFile, videoUrl, category, monetization, scheduleTime,
                 isSubmitting, error, summary, inflight, previewAtSubmit, pending, srvVars>>

SetMonetization ==
  /\ client = "browser"
  /\ \E v \in MonetizationSetting : monetization' = v
  /\ UNCHANGED <<client, sourceType, videoFile, videoUrl, category, language, scheduleTime,
                 isSubmitting, error, summary, inflight, previewAtSubmit, pending, srvVars>>

SetScheduleTime ==
  /\ client = "browser"
  /\ \E v \in FormSchedules : scheduleTime' = v
  /\ UNCHANGED <<client, sourceType, videoFile, videoUrl, category, language, monetization,
                 isSubmitting, error, summary, inflight, previewAtSubmit, pending, srvVars>>

\* handleSubmit up to its await of fetch (UploadForm.tsx 52-87). The submit
\* event reaches it only while the submit button is enabled.
HandleSubmit ==
  /\ client = "browser"
  /\ ~SubmitDisabled(isSubmitting)
  /\ Len(pending) < MaxPending
  /\ summary' = NoSummary
  /\ IF ClientCheck(sourceType, videoFile, videoUrl) = "noFile"
     THEN /\ error' = "Please select a video file to upload."
          /\ UNCHANGED <<isSubmitting, inflight, previewAtSubmit, pending>>
     ELSE IF ClientCheck(sourceType, videoFile, videoUrl) = "noUrl"
     THEN /\ error' = "Please provide a valid video link."
          /\ UNCHANGED <<isSubmitting, inflight, previewAtSubmit, pending>>
     ELSE /\ error' = NULL
          /\ isSubmitting' = TRUE
          /\ inflight' = inflight + 1
          /\ previewAtSubmit' =
               PreviewArgs(sourceType, videoFile, videoUrl, category, language, monetization)
          /\ pending' =
               Append(pending,
                      [origin |-> "form", bodyOk |-> TRUE,
                       fd |-> BuildFormData(sourceType, videoFile, videoUrl, category,
                                            language, monetization, scheduleTime)])
  /\ UNCHANGED <<client, fieldVars, srvVars>>

ResetServer ==
  /\ pc' = "idle" /\ req' = NoRequest /\ data' = NoParsed
  /\ videoBuffer' = NULL /\ fileNameOrUrl' = ""
  /\ seoArgs' = NoSeoArgs /\ uploadArgs' = NoUploadArgs /\ lookup' = UNDEFINED
  /\ upload' = NoUpload /\ resp' = NoResponse /\ calls' = <<>>

\* fetch and response.json() resolve: the rest of handleSubmit's try block and
\* its finally (UploadForm.tsx 89-102).
FetchResolved ==
  /\ pc = "responded" /\ req.origin = "form"
  /\ IF ~(resp.status >= 200 /\ resp.status <= 299) \/ ~resp.ok
     THEN /\ error' = (IF resp.error = UNDEFINED THEN "Upload failed. Please try again."
                       ELSE resp.error)
          /\ UNCHANGED summary
     ELSE /\ summary' = [set |-> TRUE, data |-> resp.data]
          /\ UNCHANGED error
  /\ isSubmitting' = FALSE
  /\ inflight' = inflight - 1
  /\ ResetServer
  /\ UNCHANGED <<client, fieldVars, previewAtSubmit, pending>>

\* fetch rejects because the request never reached the endpoint: catch and
\* finally (UploadForm.tsx 96-102).
FetchRejected ==
  /\ pending # <<>> /\ Head(pending).origin = "form"
  /\ pending' = Tail(pending)
  /\ error' = "Failed to fetch"
  /\ isSubmitting' = FALSE
  /\ inflight' = inflight - 1
  /\ UNCHANGED <<client, fieldVars, summary, previewAtSubmit, srvVars>>

\* The response is lost or is not JSON: response.json() or fetch throws.
ResponseUnreadable ==
  /\ pc = "responded" /\ req.origin = "form"
  /\ error' = "Unexpected end of JSON input"
  /\ isSubmitting' = FALSE
  /\ inflight' = inflight - 1
  /\ ResetServer
  /\ UNCHANGED <<client, fieldVars, summary, previewAtSubmit, pending>>

\* ------------------------------------------------------------ any other client
\* Entries a client other than the form may send for each field.
ApiSourceTypes == {Str("file"), Str("link"), Str("stream")}
ApiCategories == {Str(c) : c \in VideoCategory} \cup {Str("music")}
ApiLanguages == {Str("English"), Str("e")}
ApiMonetizations == {Str("enabled"), Str("disabled"), Absent}
ApiSchedules == {Absent, Str(""), Str(SchedGarbage), Str(SchedPast), Str(SchedFuture)}
ApiVideoUrls == {Absent, Str(""), Str(BadUrl), Str(GoodUrl)}
ApiVideoFiles == {Absent, FileEntry(FileName), Str(FileName)}

\* A client posts a multipart form to /api/upload and waits for the answer.
ApiRequest ==
  /\ client = "api" /\ pc = "idle" /\ pending = <<>>
  /\ \E st \in ApiSourceTypes, cat \in ApiCategories, lang \in ApiLanguages,
        mon \in ApiMonetizations, sched \in ApiSchedules, url \in ApiVideoUrls,
        file \in ApiVideoFiles :
       pending' = <<[origin |-> "api", bodyOk |-> TRUE,
                     fd |-> [sourceType |-> st, category |-> cat, language |-> lang,
                             monetization |-> mon, scheduleTime |-> sched,
                             videoFile |-> file, videoUrl |-> url]]>>
  /\ UNCHANGED <<client, formVars, srvVars>>

\* A client posts a body that is not a form (for instance JSON).
ApiRequestNotForm ==
  /\ client = "api" /\ pc = "idle" /\ pending = <<>>
  /\ pending' = <<[origin |-> "api", bodyOk |-> FALSE, fd |-> NoFormData]>>
  /\ UNCHANGED <<client, formVars, srvVars>>

ApiReceive ==
  /\ pc = "responded" /\ req.origin = "api"
  /\ ResetServer
  /\ UNCHANGED <<client, formVars, pending>>


\* ------------------------------------------------------------ route.ts: POST
\* What POST does with request r up to its first await after req.formData()
\* (route.ts 43-90): the response it ends with, or the source resolution it
\* starts. req.formData() rejects for a body that is not a form, which the
\* catch block answers.
Start(r) ==
  IF ~r.bodyOk
  THEN [pc |-> "responded", resp |-> ErrorResponse("Failed to parse body as FormData."),
        data |-> NoParsed, calls |-> <<"formData">>]
  ELSE IF ~SafeParseSuccess(ParseInput(r.fd))
  THEN [pc |-> "responded", resp |-> InvalidPayloadResponse, data |-> NoParsed,
        calls |-> <<"formData", "safeParse">>]
  ELSE LET d == ParsedData(ParseInput(r.fd))
           step == SourceStep(d, r.fd)
       IN IF step = "fileRequired"
          THEN [pc |-> "responded", resp |-> FileRequiredResponse, data |-> d,
                calls |-> <<"formData", "safeParse">>]
          ELSE IF step = "urlRequired"
          THEN [pc |-> "responded", resp |-> UrlRequiredResponse, data |-> d,
                calls |-> <<"formData", "safeParse">>]
          ELSE [pc |-> step, resp |-> NoResponse, data |-> d,
                calls |-> <<"formData", "safeParse", step>>]

\* POST is invoked with the next request and runs to its first suspension.
PostStart ==
  /\ pc = "idle" /\ pending # <<>>
  /\ LET r == Head(pending)
         s == Start(r)
     IN /\ req' = r
        /\ pc' = s.pc /\ resp' = s.resp /\ data' = s.data /\ calls' = s.calls
  /\ pending' = Tail(pending)
  /\ UNCHANGED <<client, formVars, videoBuffer, fileNameOrUrl, seoArgs, uploadArgs, lookup,
                 upload>>

\* The source resolution returned buf for name; POST runs on to uploadVideo
\* or to a response (route.ts 92-119).
Resolved(buf, name) ==
  LET c == Continue(buf, name, data)
  IN /\ videoBuffer' = buf /\ fileNameOrUrl' = name
     /\ pc' = c.pc /\ resp' = c.resp /\ seoArgs' = c.seoArgs
     /\ uploadArgs' = c.uploadArgs /\ lookup' = c.lookup
     /\ calls' = calls \o c.calls
     /\ upload' = IF c.pc = "uploadVideo" THEN [NoUpload EXCEPT !.state = "INIT"] ELSE upload
     /\ UNCHANGED <<client, formVars, pending, req, data>>

\* bufferFromFile resolves (route.ts 79-80).
BufferFromFile ==
  /\ pc = "bufferFromFile"
  /\ Resolved(BYTES, req.fd.videoFile.value)

\* downloadRemoteVideo resolves, with the bytes or with nothing (route.ts 88-89).
DownloadReturns ==
  /\ pc = "downloadRemoteVideo"
  /\ \E buf \in {BYTES, NULL} : Resolved(buf, data.videoUrl)

\* downloadRemoteVideo rejects with a FetchError; the catch block answers.
DownloadThrows ==
  /\ pc = "downloadRemoteVideo"
  /\ \E reason \in {"unreachable", "too_large", "timeout"} :
       resp' = ErrorResponse(reason)
  /\ pc' = "responded"
  /\ UNCHANGED <<client, formVars, pending, req, data, videoBuffer, fileNameOrUrl, seoArgs,
                 uploadArgs, lookup, upload, calls>>

\* ------------------------------------------- lib/youtube: uploadVideo's steps
\* INIT -> SESSION_OPENED: the session is negotiated, private and scheduled
\* for a schedule strictly in the future, public otherwise.
UploadOpenSession ==
  /\ pc = "uploadVideo" /\ upload.state = "INIT"
  /\ \E now \in ClockReadings(uploadArgs) :
       upload' = [upload EXCEPT
                    !.state = "SESSION_OPENED", !.now = now,
                    !.privacy = IF Scheduled(uploadArgs, now) THEN "private" ELSE "public",
                    !.publishAt = IF Scheduled(uploadArgs, now) THEN uploadArgs.publishAt
                                  ELSE UNDEFINED]
  /\ UNCHANGED <<client, formVars, pending, pc, req, data, videoBuffer, fileNameOrUrl, seoArgs,
                 uploadArgs, lookup, resp, calls>>

\* uploadVideo rejected with error e; POST's catch block answers.
UploadFails(e) ==
  /\ upload' = [NoUpload EXCEPT !.state = "FAILED", !.error = e]
  /\ resp' = ErrorResponse(e)
  /\ pc' = "responded"
  /\ UNCHANGED <<client, formVars, pending, req, data, videoBuffer, fileNameOrUrl, seoArgs,
                 uploadArgs, lookup, calls>>

\* The platform refuses the session.
UploadOpenFails ==
  /\ pc = "uploadVideo" /\ upload.state = "INIT"
  /\ \E e \in {"AuthError", "QuotaError"} : UploadFails(e)

ChunkPending ==
  /\ pc = "uploadVideo"
  /\ upload.state \in {"SESSION_OPENED", "CHUNKS_IN_FLIGHT"}
  /\ upload.offset < NumChunks

\* The platform acknowledges the chunk at the current offset.
ChunkAcked ==
  /\ ChunkPending
  /\ upload' = [upload EXCEPT
                  !.state = "CHUNKS_IN_FLIGHT", !.offset = upload.offset + 1,
                  !.failures = 0, !.retried = upload.retried \/ upload.failures > 0]
  /\ UNCHANGED <<client, formVars, pending, pc, req, data, videoBuffer, fileNameOrUrl, seoArgs,
                 uploadArgs, lookup, resp, calls>>

\* The attempt fails with a transient condition and there are attempts left.
ChunkRetried ==
  /\ ChunkPending
  /\ upload.failures + 1 < MaxAttempts
  /\ upload' = [upload EXCEPT !.state = "CHUNKS_IN_FLIGHT", !.failures = upload.failures + 1]
  /\ UNCHANGED <<client, formVars, pending, pc, req, data, videoBuffer, fileNameOrUrl, seoArgs,
                 uploadArgs, lookup, resp, calls>>

\* The last attempt of the budget fails with a transient condition.
ChunkBudgetExhausted ==
  /\ ChunkPending
  /\ upload.failures + 1 >= MaxAttempts
  /\ upload' = [NoUpload EXCEPT !.state = "FAILED", !.error = "TransientNetworkError",
                                !.failures = upload.failures + 1]
  /\ resp' = ErrorResponse("TransientNetworkError")
  /\ pc' = "responded"
  /\ UNCHANGED <<client, formVars, pending, req, data, videoBuffer, fileNameOrUrl, seoArgs,
                 uploadArgs, lookup, calls>>

\* The platform rejects the chunk with a non-transient status: no retry.
ChunkRejected ==
  /\ ChunkPending
  /\ UploadFails("RejectedByPlatformError")

\* COMPLETE: the platform returns the video identifier, uploadVideo resolves
\* and POST answers with the success body (route.ts 121-133).
UploadCompletes ==
  /\ pc = "uploadVideo"
  /\ upload.state \in {"SESSION_OPENED", "CHUNKS_IN_FLIGHT"}
  /\ upload.offset = NumChunks
  /\ upload' = [upload EXCEPT !.state = "COMPLETE", !.videoId = "yt-video-1",
                              !.patched = MonetizationRequested(uploadArgs)]
  /\ resp' = SuccessResponse([videoId |-> "yt-video-1", publishAt |-> upload.publishAt],
                             generateSeoBundle(seoArgs),
                             CATEGORY_META[lookup].youtubeCategoryId)
  /\ pc' = "responded"
  /\ UNCHANGED <<client, formVars, pending, req, data, videoBuffer, fileNameOrUrl, seoArgs,
                 uploadArgs, lookup, calls>>

Next ==
  \/ SetSourceType \/ SetVideoFile \/ SetVideoUrl \/ SetCategory \/ SetLanguage
  \/ SetMonetization \/ SetScheduleTime
  \/ HandleSubmit \/ FetchResolved \/ FetchRejected \/ ResponseUnreadable
  \/ ApiRequest \/ ApiRequestNotForm \/ ApiReceive
  \/ PostStart \/ BufferFromFile \/ DownloadReturns \/ DownloadThrows
  \/ UploadOpenSession \/ UploadOpenFails
  \/ ChunkAcked \/ ChunkRetried \/ ChunkBudgetExhausted \/ ChunkRejected
  \/ UploadCompletes

Spec == Init /\ [][Next]_vars


\* ===================================================================== claims
Handled == req.origin # "none"
Responded == pc = "responded"
Called(step) == \E i \in 1 .. Len(calls) : calls[i] = step
IsFormRequest(r) == r.origin = "form"
PendingRequests == {pending[i] : i \in 1 .. Len(pending)}

\* The request names link without a videoUrl, or file without a videoFile part.
MissingSource(fd) ==
  \/ fd.sourceType = Str("link") /\ (fd.videoUrl.kind = "null" \/ fd.videoUrl = Str(""))
  \/ fd.sourceType = Str("file") /\ fd.videoFile.kind = "null"

\* C1: a request whose sourceType is link with an empty or absent videoUrl, or
\* file with no videoFile part, is answered with HTTP 400 and ok:false, and
\* neither downloadRemoteVideo nor uploadVideo is invoked for it; the form never
\* sends such a request (handleSubmit returns before fetch in those two cases).
C1_MissingSourceRejected ==
  /\ (Handled /\ MissingSource(req.fd)) =>
       /\ Responded /\ resp.status = 400 /\ ~resp.ok
       /\ ~Called("downloadRemoteVideo") /\ ~Called("uploadVideo")
       /\ upload.state = "NONE"
  /\ \A r \in PendingRequests \cup {req} : IsFormRequest(r) => ~MissingSource(r.fd)

C1_Witness ==
  /\ Responded /\ req.origin = "api"
  /\ req.fd.sourceType = Str("link") /\ req.fd.videoUrl = Str("")
  /\ resp = UrlRequiredResponse

\* The request carries a scheduleTime that is present and not parseable.
ScheduleInvalid(fd) ==
  fd.scheduleTime.kind = "string" /\ fd.scheduleTime.value # ""
    /\ DateParse(fd.scheduleTime.value) = NaN

ValidIso(v) == DateParse(v) # NaN /\ ToISOString(DateParse(v)) = v

\* C2: a scheduleTime that is present and unparseable is answered with 400
\* before any network interaction: downloadRemoteVideo and uploadVideo are
\* reached only when scheduleTime is absent, empty or parses to an instant, and
\* the publishAt handed to uploadVideo is undefined or a valid ISO timestamp.
C2_ScheduleValidatedFirst ==
  /\ (Handled /\ ScheduleInvalid(req.fd)) =>
       (Responded /\ resp.status = 400 /\ ~resp.ok)
  /\ (Called("downloadRemoteVideo") \/ Called("uploadVideo")) => ~ScheduleInvalid(req.fd)
  /\ Called("uploadVideo") =>
       (uploadArgs.publishAt = UNDEFINED \/ ValidIso(uploadArgs.publishAt))

C2_Witness ==
  /\ Responded /\ ScheduleInvalid(req.fd)
  /\ req.fd.sourceType = Str("link") /\ req.fd.videoUrl = Str(GoodUrl)
  /\ req.fd.category = Str("gaming") /\ req.fd.language = Str("English")
  /\ req.fd.monetization = Str("enabled")
  /\ resp = InvalidPayloadResponse

\* C3: on every successful publish the returned publishAt is the requested
\* schedule instant when that instant is strictly after the clock reading, and
\* is null, with the video requested as public, when the schedule is omitted or
\* not after the clock reading.
C3_PublishAtMirrorsSchedule ==
  (Responded /\ resp.ok) =>
    LET s == OrUndefined(req.fd.scheduleTime)
    IN IF s.kind = "string" /\ DateParse(s.value) > upload.now
       THEN /\ resp.data.publishAt # NULL
            /\ DateParse(resp.data.publishAt) = DateParse(s.value)
            /\ upload.privacy = "private"
       ELSE /\ resp.data.publishAt = NULL
            /\ upload.privacy = "public"

C3_Witness ==
  /\ Responded /\ resp.ok
  /\ req.fd.scheduleTime = Str(SchedFuture)
  /\ resp.data.publishAt = "2099-01-01T00:00:00.000Z"

\* C4: whenever a request with monetization enabled ends in a completed upload,
\* the monetization directive was part of what uploadVideo received and the
\* follow-up metadata update setting the flag was made.
C4_MonetizationReachesPlatform ==
  (Responded /\ resp.ok /\ data.monetization = "enabled") =>
    (MonetizationRequested(uploadArgs) /\ upload.patched)

IsPrefix(p, q) == Len(p) <= Len(q) /\ \A i \in 1 .. Len(p) : p[i] = q[i]

StepOrders ==
  {<<"formData", "safeParse", r, "generateSeoBundle", "uploadVideo">> :
     r \in {"bufferFromFile", "downloadRemoteVideo"}}

\* C5: POST's steps occur in the order validate, resolve the source,
\* generateSeoBundle, uploadVideo, respond; uploadVideo is never invoked after
\* a source resolution that failed or returned nothing; and ok:true with a
\* videoId is returned only once uploadVideo has completed.
C5_PipelineOrder ==
  /\ \E o \in StepOrders : IsPrefix(calls, o)
  /\ Called("uploadVideo") <=> upload.state # "NONE"
  /\ Called("uploadVideo") => videoBuffer # NULL
  /\ (Responded /\ resp.ok) =>
       /\ upload.state = "COMPLETE"
       /\ resp.hasData /\ resp.data.videoId = upload.videoId
       /\ upload.videoId # UNDEFINED
  /\ (Responded /\ upload.state # "COMPLETE") => (~resp.ok /\ ~resp.hasData)

C5_Witness ==
  /\ Responded /\ Called("downloadRemoteVideo") /\ videoBuffer = NULL
  /\ resp = UnresolvedResponse /\ ~Called("uploadVideo")

\* The request fails input validation: the body is not a form, a field fails
\* the schema, or the source the sourceType names is missing.
InputInvalid(r) ==
  \/ ~r.bodyOk
  \/ ~SafeParseSuccess(ParseInput(r.fd))
  \/ SourceStep(ParsedData(ParseInput(r.fd)), r.fd) \in {"fileRequired", "urlRequired"}

\* C6: every failure response carries ok:false and an error message, with
\* status 400 exactly for input validation failures and 500 exactly for
\* failures of a downstream step.
C6_StatusClassification ==
  (Responded /\ ~resp.ok) =>
    /\ resp.error # UNDEFINED
    /\ resp.status = 400 <=> InputInvalid(req)
    /\ resp.status = 500 <=> ~InputInvalid(req)

\* C7: a chunk transfer that fails transiently and then succeeds within the
\* retry budget does not fail the call, which succeeds once every chunk is
\* acknowledged; the call fails with TransientNetworkError only when a chunk
\* has used the whole budget, and the response then has no videoId.
C7_RetryBudget ==
  /\ upload.state \in {"SESSION_OPENED", "CHUNKS_IN_FLIGHT"} => upload.failures < MaxAttempts
  /\ upload.state = "COMPLETE" =>
       (Responded /\ resp.ok /\ resp.data.videoId # UNDEFINED)
  /\ upload.error = "TransientNetworkError" =>
       /\ upload.failures = MaxAttempts
       /\ Responded /\ ~resp.ok /\ resp.status = 500
       /\ resp.error = "TransientNetworkError"
       /\ ~resp.hasData /\ resp.data.videoId = UNDEFINED

C7_Witness ==
  /\ Responded /\ resp.ok /\ upload.retried /\ upload.state = "COMPLETE"

CategoryKnown(fd) == \E c \in VideoCategory : fd.category = Str(c)

\* C8: CATEGORY_META is indexed only with a member of the closed category set:
\* a request whose category is outside it is answered with 400 before the
\* lookup, the bundle generation and the upload call; on success the response's
\* categoryId is the registry's id for the requested category.
C8_CategoryClosedSet ==
  /\ lookup # UNDEFINED => lookup \in VideoCategory
  /\ (Handled /\ req.bodyOk /\ ~CategoryKnown(req.fd)) =>
       /\ Responded /\ resp.status = 400 /\ ~resp.ok
       /\ lookup = UNDEFINED /\ seoArgs = NoSeoArgs
       /\ ~Called("generateSeoBundle") /\ ~Called("uploadVideo")
  /\ (Responded /\ resp.ok) =>
       /\ CategoryKnown(req.fd)
       /\ resp.data.categoryId = CATEGORY_META[req.fd.category.value].youtubeCategoryId

C8_Witness ==
  /\ Responded /\ req.fd.category = Str("music")
  /\ req.fd.sourceType = Str("file") /\ req.fd.videoFile = FileEntry(FileName)
  /\ req.fd.language = Str("English") /\ req.fd.monetization = Str("disabled")
  /\ OrUndefined(req.fd.scheduleTime) = Undef /\ OrUndefined(req.fd.videoUrl) = Undef
  /\ resp = InvalidPayloadResponse

\* C9: for every form submission that reaches generateSeoBundle on the server,
\* the argument the server passes equals the argument the form passed for the
\* preview of the submitted form state, so the previewed title, description and
\* tags are those sent to uploadVideo and returned in the response.
C9_PreviewMatchesPublish ==
  IsFormRequest(req) =>
    /\ seoArgs # NoSeoArgs => (previewAtSubmit # NoSeoArgs /\ seoArgs = previewAtSubmit)
    /\ Called("uploadVideo") =>
         /\ uploadArgs.title = generateSeoBundle(previewAtSubmit).title
         /\ uploadArgs.description = generateSeoBundle(previewAtSubmit).description
         /\ uploadArgs.tags = generateSeoBundle(previewAtSubmit).tags
    /\ (Responded /\ resp.ok) =>
         /\ resp.data.title = generateSeoBundle(previewAtSubmit).title
         /\ resp.data.description = generateSeoBundle(previewAtSubmit).description
         /\ resp.data.tags = generateSeoBundle(previewAtSubmit).tags

C9_Witness ==
  /\ IsFormRequest(req) /\ Responded /\ resp.ok
  /\ req.fd.sourceType = Str("link")
  /\ resp.data.title = <<"demo run", "gaming", "English">>
  /\ category # "gaming"

FormRequestsOutstanding ==
  Cardinality({i \in 1 .. Len(pending) : IsFormRequest(pending[i])})
    + (IF IsFormRequest(req) THEN 1 ELSE 0)

\* C10: isSubmitting is true exactly while a request issued by handleSubmit is
\* outstanding, at most one such request is in flight at a time, and error and
\* summary are never both non-null.
C10_SubmittingInvariant ==
  /\ inflight = FormRequestsOutstanding
  /\ isSubmitting <=> inflight > 0
  /\ inflight <= 1
  /\ ~(error # NULL /\ summary.set)

C10_Witness ==
  /\ ~isSubmitting /\ inflight = 0 /\ summary.set /\ error = NULL
  /\ client = "browser"

====
